---- MODULE Spec2Model ----
\* A model of the finance chatbot: the symbol catalog and resolver, the cached
\* quote gateway, the response composer (generative model with rule-based
\* fallback) and the transaction ledger.
\*
\* Text is modelled as a sequence of one-character strings, so that lower(),
\* strip() and the "in" substring test are computed as Python computes them.
EXTENDS Integers, Sequences, FiniteSets, TLC

\* ---------------------------------------------------------------- text

\* Python's None where a symbol (a string) is expected.
None == "None"

UpperChars ==
  <<"A","B","C","D","E","F","G","H","I","J","K","L","M",
    "N","O","P","Q","R","S","T","U","V","W","X","Y","Z">>

LowerChars ==
  <<"a","b","c","d","e","f","g","h","i","j","k","l","m",
    "n","o","p","q","r","s","t","u","v","w","x","y","z">>

Whitespace == {" ", "\t", "\n"}

SetMin(S) == CHOOSE x \in S : \A y \in S : x <= y

SetMax(S) == CHOOSE x \in S : \A y \in S : x >= y

\* str.lower() on one character.
LowerChar(c) ==
  IF \E i \in 1..26 : UpperChars[i] = c
    THEN LowerChars[CHOOSE i \in 1..26 : UpperChars[i] = c]
    ELSE c

\* str.upper() on one character (used to build mixed-case inputs).
UpperChar(c) ==
  IF \E i \in 1..26 : LowerChars[i] = c
    THEN UpperChars[CHOOSE i \in 1..26 : LowerChars[i] = c]
    ELSE c

\* str.lower()
lower(s) == [i \in 1..Len(s) |-> LowerChar(s[i])]

\* str.strip(): drops leading and trailing whitespace, keeps inner whitespace.
strip(s) ==
  LET keep == {i \in 1..Len(s) : s[i] \notin Whitespace}
  IN  IF keep = {} THEN <<>> ELSE SubSeq(s, SetMin(keep), SetMax(keep))

\* Python's "a in b" on strings: a occurs in b as a contiguous run.
IsSubstring(a, b) ==
  \E i \in 1..(Len(b) - Len(a) + 1) : SubSeq(b, i, i + Len(a) - 1) = a

\* ------------------------------------------------------- symbol catalog
\* Each table is the sequence of its (alias, symbol) pairs in source order.

INDIAN_STOCKS ==
  << <<<<"r","e","l","i","a","n","c","e">>, "RELIANCE.NS">>,
     <<<<"t","c","s">>, "TCS.NS">>,
     <<<<"i","n","f","o","s","y","s">>, "INFY.NS">>,
     <<<<"h","d","f","c"," ","b","a","n","k">>, "HDFCBANK.NS">>,
     <<<<"i","c","i","c","i"," ","b","a","n","k">>, "ICICIBANK.NS">>,
     <<<<"s","b","i">>, "SBIN.NS">>,
     <<<<"b","h","a","r","t","i"," ","a","i","r","t","e","l">>, "BHARTIARTL.NS">>,
     <<<<"i","t","c">>, "ITC.NS">>,
     <<<<"w","i","p","r","o">>, "WIPRO.NS">>,
     <<<<"m","a","r","u","t","i">>, "MARUTI.NS">>,
     <<<<"b","a","j","a","j"," ","f","i","n","a","n","c","e">>, "BAJFINANCE.NS">>,
     <<<<"a","s","i","a","n"," ","p","a","i","n","t","s">>, "ASIANPAINT.NS">>,
     <<<<"t","a","t","a"," ","m","o","t","o","r","s">>, "TATAMOTORS.NS">>,
     <<<<"t","i","t","a","n">>, "TITAN.NS">>,
     <<<<"a","d","a","n","i"," ","e","n","t","e","r","p","r","i","s","e","s">>, "ADANIENT.NS">>,
     <<<<"n","i","f","t","y">>, "^NSEI">>,
     <<<<"s","e","n","s","e","x">>, "^BSESN">>,
     <<<<"b","a","n","k"," ","n","i","f","t","y">>, "^NSEBANK">> >>

US_STOCKS ==
  << <<<<"a","p","p","l","e">>, "AAPL">>,
     <<<<"m","i","c","r","o","s","o","f","t">>, "MSFT">>,
     <<<<"g","o","o","g","l","e">>, "GOOGL">>,
     <<<<"a","m","a","z","o","n">>, "AMZN">>,
     <<<<"t","e","s","l","a">>, "TSLA">>,
     <<<<"m","e","t","a">>, "META">>,
     <<<<"n","v","i","d","i","a">>, "NVDA">>,
     <<<<"n","e","t","f","l","i","x">>, "NFLX">>,
     <<<<"f","a","c","e","b","o","o","k">>, "META">>,
     <<<<"a","l","p","h","a","b","e","t">>, "GOOGL">>,
     <<<<"b","e","r","k","s","h","i","r","e">>, "BRK-B">>,
     <<<<"j","o","h","n","s","o","n">>, "JNJ">>,
     <<<<"w","a","l","m","a","r","t">>, "WMT">>,
     <<<<"v","i","s","a">>, "V">>,
     <<<<"m","a","s","t","e","r","c","a","r","d">>, "MA">>,
     <<<<"s","p","5","0","0">>, "^GSPC">>,
     <<<<"n","a","s","d","a","q">>, "^IXIC">>,
     <<<<"d","o","w">>, "^DJI">> >>

COMMODITIES ==
  << <<<<"g","o","l","d">>, "GC=F">>,
     <<<<"s","i","l","v","e","r">>, "SI=F">>,
     <<<<"c","r","u","d","e"," ","o","i","l">>, "CL=F">>,
     <<<<"b","r","e","n","t"," ","o","i","l">>, "BZ=F">>,
     <<<<"n","a","t","u","r","a","l"," ","g","a","s">>, "NG=F">>,
     <<<<"c","o","p","p","e","r">>, "HG=F">>,
     <<<<"p","l","a","t","i","n","u","m">>, "PL=F">>,
     <<<<"p","a","l","l","a","d","i","u","m">>, "PA=F">>,
     <<<<"c","o","r","n">>, "C=F">>,
     <<<<"w","h","e","a","t">>, "W=F">>,
     <<<<"s","o","y","b","e","a","n","s">>, "S=F">>,
     <<<<"c","o","f","f","e","e">>, "KC=F">>,
     <<<<"s","u","g","a","r">>, "SB=F">>,
     <<<<"c","o","t","t","o","n">>, "CT=F">> >>

FOREX_PAIRS ==
  << <<<<"e","u","r","u","s","d">>, "EURUSD=X">>,
     <<<<"g","b","p","u","s","d">>, "GBPUSD=X">>,
     <<<<"u","s","d","j","p","y">>, "USDJPY=X">>,
     <<<<"u","s","d","c","h","f">>, "USDCHF=X">>,
     <<<<"a","u","d","u","s","d">>, "AUDUSD=X">>,
     <<<<"u","s","d","c","a","d">>, "USDCAD=X">>,
     <<<<"n","z","d","u","s","d">>, "NZDUSD=X">>,
     <<<<"u","s","d","i","n","r">>, "USDINR=X">>,
     <<<<"e","u","r","j","p","y">>, "EURJPY=X">>,
     <<<<"g","b","p","j","p","y">>, "GBPJPY=X">>,
     <<<<"c","h","f","j","p","y">>, "CHFJPY=X">>,
     <<<<"e","u","r","g","b","p">>, "EURGBP=X">> >>

CRYPTO_PAIRS ==
  << <<<<"b","i","t","c","o","i","n">>, "BTC-USD">>,
     <<<<"e","t","h","e","r","e","u","m">>, "ETH-USD">>,
     <<<<"c","a","r","d","a","n","o">>, "ADA-USD">>,
     <<<<"s","o","l","a","n","a">>, "SOL-USD">>,
     <<<<"d","o","g","e","c","o","i","n">>, "DOGE-USD">>,
     <<<<"l","i","t","e","c","o","i","n">>, "LTC-USD">>,
     <<<<"c","h","a","i","n","l","i","n","k">>, "LINK-USD">>,
     <<<<"p","o","l","y","g","o","n">>, "MATIC-USD">>,
     <<<<"a","v","a","l","a","n","c","h","e">>, "AVAX-USD">> >>


\* {**a, **b, ...} over the pairs of the tables written one after another: a
\* key stands where it first occurs and carries the value of its last
\* occurrence.
DictMerge(pairs) ==
  LET first == {i \in 1..Len(pairs) :
                  \A j \in 1..(i - 1) : pairs[j][1] # pairs[i][1]}
      nth(k) == CHOOSE i \in first : Cardinality({j \in first : j <= i}) = k
      last(i) == SetMax({j \in 1..Len(pairs) : pairs[j][1] = pairs[i][1]})
      merged == [k \in 1..Cardinality(first) |->
                   <<pairs[nth(k)][1], pairs[last(nth(k))][2]>>]
  IN  SubSeq(merged, 1, Cardinality(first))

\* {**INDIAN_STOCKS, **US_STOCKS, **COMMODITIES, **FOREX_PAIRS, **CRYPTO_PAIRS}
all_symbols ==
  DictMerge(INDIAN_STOCKS \o US_STOCKS \o COMMODITIES \o FOREX_PAIRS
              \o CRYPTO_PAIRS)

\* Every (alias, symbol) pair written in a catalog table.
Registered ==
  {INDIAN_STOCKS[i] : i \in 1..Len(INDIAN_STOCKS)} \cup
  {US_STOCKS[i] : i \in 1..Len(US_STOCKS)} \cup
  {COMMODITIES[i] : i \in 1..Len(COMMODITIES)} \cup
  {FOREX_PAIRS[i] : i \in 1..Len(FOREX_PAIRS)} \cup
  {CRYPTO_PAIRS[i] : i \in 1..Len(CRYPTO_PAIRS)}

Aliases == {p[1] : p \in Registered}

\* ------------------------------------------------------ symbol resolver

\* What the SYMBOL_SEARCH endpoint can answer: requests.get raising, a body
\* that is not JSON, JSON that is not an object, or an object with or without
\* "bestMatches", whose entries carry or lack the "1. symbol" label.
Match(sym) == [hasSymbol |-> TRUE, symbol |-> sym]

MatchNoLabel == [hasSymbol |-> FALSE, symbol |-> None]

SearchResponses ==
  {[kind |-> k, hasBestMatches |-> FALSE, bestMatches |-> <<>>] :
      k \in {"transport_error", "invalid_json", "not_object", "object"}} \cup
  {[kind |-> "object", hasBestMatches |-> TRUE, bestMatches |-> m] :
      m \in {<<>>, <<Match("XYZ")>>, <<Match("XYZ"), Match("ABC")>>,
             <<MatchNoLabel>>, <<Match("")>>}}

\* The search request fails: network error, malformed body, or no match.
SearchFails(resp) ==
  \/ resp.kind # "object"
  \/ ~resp.hasBestMatches
  \/ resp.bestMatches = <<>>

\* The mutant lets the exception of the failed request escape.
SymbolSearchUncaught(resp) ==
  IF resp.kind # "object"
    THEN [raised |-> TRUE, returned |-> FALSE, symbol |-> None, requests |-> 1]
    ELSE LET matches == IF resp.hasBestMatches THEN resp.bestMatches ELSE <<>>
         IN  IF matches # <<>>
               THEN [raised |-> FALSE, returned |-> TRUE,
                     symbol |-> IF matches[1].hasSymbol THEN matches[1].symbol
                                ELSE None,
                     requests |-> 1]
               ELSE [raised |-> FALSE, returned |-> FALSE, symbol |-> None,
                     requests |-> 1]

\* The try block of find_symbol: one GET, response.json(), data.get(
\* "bestMatches", []), matches[0].get("1. symbol"); the bare except swallows
\* every failure. returned says whether the block executed its return.
SymbolSearch(resp) ==
  IF resp.kind # "object"
    THEN [raised |-> FALSE, returned |-> FALSE, symbol |-> None, requests |-> 1]
    ELSE LET matches == IF resp.hasBestMatches THEN resp.bestMatches ELSE <<>>
         IN  IF matches # <<>>
               THEN [raised |-> FALSE, returned |-> TRUE,
                     symbol |-> IF matches[1].hasSymbol THEN matches[1].symbol
                                ELSE None,
                     requests |-> 1]
               ELSE [raised |-> FALSE, returned |-> FALSE, symbol |-> None,
                     requests |-> 1]

\* The mutant tests only "name in query".
PartialMatchNameInQuery(query, name) == IsSubstring(name, query)

\* The test of the partial-match loop: query in name or name in query.
PartialMatch(query, name) == IsSubstring(query, name) \/ IsSubstring(name, query)

\* The mutant has no direct-match step.
find_symbol_no_direct(rawQuery, resp) ==
  LET query == strip(lower(rawQuery))
      hits == {i \in 1..Len(all_symbols) : PartialMatch(query, all_symbols[i][1])}
  IN  IF hits # {}
        THEN [symbol |-> all_symbols[SetMin(hits)][2], path |-> "partial",
              requests |-> 0, raised |-> FALSE]
        ELSE LET s == SymbolSearch(resp)
             IN  [symbol |-> s.symbol,
                  path |-> IF s.returned THEN "search" ELSE "none",
                  requests |-> s.requests, raised |-> s.raised]

\* find_symbol(query) with the search endpoint answering resp. path names the
\* return statement taken: "direct", "partial" (the first entry of all_symbols,
\* in iteration order, that passes the test), "search", or "none" for the final
\* return None. requests counts the outbound search requests.
find_symbol(rawQuery, resp) ==
  LET query == strip(lower(rawQuery))
      direct == {i \in 1..Len(all_symbols) : all_symbols[i][1] = query}
      hits == {i \in 1..Len(all_symbols) : PartialMatch(query, all_symbols[i][1])}
  IN  IF direct # {}
        THEN [symbol |-> all_symbols[CHOOSE i \in direct : TRUE][2],
              path |-> "direct", requests |-> 0, raised |-> FALSE]
        ELSE IF hits # {}
          THEN [symbol |-> all_symbols[SetMin(hits)][2], path |-> "partial",
                requests |-> 0, raised |-> FALSE]
          ELSE LET s == SymbolSearch(resp)
               IN  [symbol |-> s.symbol,
                    path |-> IF s.returned THEN "search" ELSE "none",
                    requests |-> s.requests, raised |-> s.raised]

\* ------------------------------------------------------- quote gateway
\* Numbers are kept as integers in units of 0.0001, the precision the quote
\* endpoint prints; the modelled inputs are all multiples of 0.01, so that
\* formatting to two decimals is exact.

Digits == <<"0","1","2","3","4","5","6","7","8","9">>

IsDigit(c) == \E i \in 1..Len(Digits) : Digits[i] = c

DigitVal(c) == (CHOOSE i \in 1..Len(Digits) : Digits[i] = c) - 1

RECURSIVE DigitsValue(_)
DigitsValue(s) ==
  IF s = <<>> THEN 0
  ELSE DigitsValue(SubSeq(s, 1, Len(s) - 1)) * 10 + DigitVal(s[Len(s)])

\* float(text) for decimal text: optional sign, digits, optional point and up
\* to four fraction digits; anything else raises ValueError (ok = FALSE).
ParseFloat(text) ==
  LET t == strip(text)
      signed == t # <<>> /\ t[1] \in {"+", "-"}
      body == IF signed THEN Tail(t) ELSE t
      points == {i \in 1..Len(body) : body[i] = "."}
      cut == IF points = {} THEN Len(body) + 1 ELSE SetMin(points)
      whole == SubSeq(body, 1, cut - 1)
      frac == SubSeq(body, cut + 1, Len(body))
      wellFormed ==
        /\ Cardinality(points) <= 1
        /\ Len(whole) + Len(frac) > 0
        /\ Len(frac) <= 4
        /\ \A i \in 1..Len(whole) : IsDigit(whole[i])
        /\ \A i \in 1..Len(frac) : IsDigit(frac[i])
      padded == frac \o [i \in 1..(4 - Len(frac)) |-> "0"]
      magnitude == DigitsValue(whole) * 10000 + DigitsValue(padded)
  IN  IF wellFormed
        THEN [ok |-> TRUE,
              value |-> IF signed /\ t[1] = "-" THEN 0 - magnitude ELSE magnitude]
        ELSE [ok |-> FALSE, value |-> 0]

RECURSIVE NatText(_)
NatText(n) ==
  IF n < 10 THEN <<Digits[n + 1]>>
  ELSE NatText(n \div 10) \o <<Digits[(n % 10) + 1]>>

\* format(x, ".2f") and, with plus, format(x, "+.2f").
Format2f(v, plus) ==
  LET mag == IF v < 0 THEN 0 - v ELSE v
      low == mag \div 100
      rest == mag % 100
      cents == IF rest > 50 \/ (rest = 50 /\ low % 2 = 1) THEN low + 1 ELSE low
      sign == IF v < 0 THEN <<"-">> ELSE IF plus THEN <<"+">> ELSE <<>>
  IN  sign \o NatText(cents \div 100) \o <<".">>
           \o <<Digits[((cents \div 10) % 10) + 1], Digits[(cents % 10) + 1]>>

\* A key of the "Global Quote" object: present with its text, or absent.
Field(text) == [has |-> TRUE, text |-> text]

NoField == [has |-> FALSE, text |-> <<>>]

\* The "01. symbol" key, whose value is a ticker.
NoSymbol == [has |-> FALSE, text |-> ""]

Quote(sym, price, change, pct, volume) ==
  [symbol |-> sym, price |-> price, change |-> change, pct |-> pct,
   volume |-> volume, extra |-> FALSE]

\* {}: no key at all.
EmptyQuote == Quote(NoSymbol, NoField, NoField, NoField, NoField)

\* A "Global Quote" object that has none of the keys the code reads.
OtherKeysQuote == [EmptyQuote EXCEPT !.extra = TRUE]

AppleUp ==
  Quote(Field("AAPL"), Field(<<"1","5","0",".","0","0","0","0">>),
        Field(<<"2",".","5","0","0","0">>), Field(<<"1",".","6","9","%">>),
        Field(<<"1","0","0","0">>))

QuoteDown ==
  Quote(NoSymbol, Field(<<"1","5","0",".","0","0","0","0">>),
        Field(<<"-","1",".","2","5","0","0">>),
        Field(<<"-","0",".","8","3","%">>), NoField)

QuoteFlat ==
  Quote(NoSymbol, Field(<<"1","5","0",".","0","0","0","0">>),
        Field(<<"0",".","0","0","0","0">>), Field(<<"0",".","0","0","%">>),
        NoField)

QuoteBadPrice ==
  Quote(Field("AAPL"), Field(<<"a","b","c">>),
        Field(<<"2",".","5","0","0","0">>), Field(<<"1",".","6","9","%">>),
        Field(<<"1","0","0","0">>))

QuoteBadChange ==
  Quote(Field("AAPL"), Field(<<"1","5","0",".","0","0","0","0">>),
        Field(<<"a","b","c">>), NoField, NoField)

\* What the GLOBAL_QUOTE endpoint can answer: requests.get raising, a body
\* that is not JSON, JSON that is not an object, or an object with or without
\* the "Global Quote" key.
QuoteResponse(kind, hasQuote, quote) ==
  [kind |-> kind, hasQuote |-> hasQuote, quote |-> quote]

QuoteResponses ==
  {QuoteResponse(k, FALSE, EmptyQuote) :
      k \in {"transport_error", "invalid_json", "not_object", "object"}} \cup
  {QuoteResponse("object", TRUE, q) :
      q \in {EmptyQuote, OtherKeysQuote, AppleUp, QuoteDown, QuoteFlat,
             QuoteBadPrice, QuoteBadChange}}

\* The answers that differ for the cache: each way of failing, and a quote.
GatewayResponses ==
  {QuoteResponse("transport_error", FALSE, EmptyQuote),
   QuoteResponse("invalid_json", FALSE, EmptyQuote),
   QuoteResponse("object", FALSE, EmptyQuote),
   QuoteResponse("object", TRUE, EmptyQuote),
   QuoteResponse("object", TRUE, QuoteBadPrice),
   QuoteResponse("object", TRUE, AppleUp)}

\* The value None where a quote dict is expected.
NoneData == [kind |-> "None"]

\* str.replace("%", "")
RECURSIVE RemovePercent(_)
RemovePercent(text) ==
  IF text = <<>> THEN <<>>
  ELSE (IF Head(text) = "%" THEN <<>> ELSE <<Head(text)>>)
         \o RemovePercent(Tail(text))

\* The call fails: transport error, empty or missing "Global Quote", or a
\* field that float() rejects.
QuoteFails(resp) ==
  \/ resp.kind # "object"
  \/ ~resp.hasQuote
  \/ resp.quote = EmptyQuote
  \/ resp.quote.price.has /\ ~ParseFloat(resp.quote.price.text).ok
  \/ resp.quote.change.has /\ ~ParseFloat(resp.quote.change.text).ok

\* The body of get_yahoo_finance_data(symbol) at time t with the endpoint
\* answering resp: one GET; every exception is caught and reported with
\* st.error, and the function then returns None.
fetch_quote(symbol, resp, t) ==
  IF resp.kind # "object" THEN NoneData
  ELSE LET quote == IF resp.hasQuote THEN resp.quote ELSE EmptyQuote
           price == IF quote.price.has THEN ParseFloat(quote.price.text)
                    ELSE [ok |-> TRUE, value |-> 0]
           change == IF quote.change.has THEN ParseFloat(quote.change.text)
                     ELSE [ok |-> TRUE, value |-> 0]
       IN  IF quote = EmptyQuote THEN NoneData
           ELSE IF ~price.ok \/ ~change.ok THEN NoneData
           ELSE [kind |-> "quote",
                 symbol |-> IF quote.symbol.has THEN quote.symbol.text ELSE symbol,
                 price |-> price.value,
                 change |-> change.value,
                 change_percent |->
                   RemovePercent(IF quote.pct.has THEN quote.pct.text
                                 ELSE <<"0","%">>),
                 volume |-> IF quote.volume.has THEN quote.volume.text
                            ELSE <<"N","/","A">>,
                 timestamp |-> t]

\* ttl=300 of st.cache_data, in seconds.
TTL == 300

\* The entry st.cache_data holds for a key at time t, if any: entries are
\* keyed by the argument and expire once ttl seconds have passed since they
\* were stored.
Live(entries, key, t) == {e \in entries : e.key = key /\ t - e.stored < TTL}

\* The mutant stores only results that are not None.
cache_data_skip_none(entries, key, t, computed) ==
  LET live == Live(entries, key, t)
  IN  IF live # {}
        THEN [value |-> (CHOOSE e \in live : TRUE).value, requests |-> 0,
              entries |-> entries]
        ELSE [value |-> computed, requests |-> 1,
              entries |-> IF computed = NoneData
                            THEN {e \in entries : e.key # key}
                            ELSE {e \in entries : e.key # key} \cup
                                 {[key |-> key, value |-> computed, stored |-> t]}]

\* @st.cache_data(ttl=300) around a function of one argument whose body would
\* return computed: a live entry is returned without running the body;
\* otherwise the body runs (one outbound request) and whatever it returns,
\* None included, is stored under the key.
cache_data(entries, key, t, computed) ==
  LET live == Live(entries, key, t)
  IN  IF live # {}
        THEN [value |-> (CHOOSE e \in live : TRUE).value, requests |-> 0,
              entries |-> entries]
        ELSE [value |-> computed, requests |-> 1,
              entries |-> {e \in entries : e.key # key} \cup
                          {[key |-> key, value |-> computed, stored |-> t]}]

\* get_yahoo_finance_data(symbol) as callers see it, decorator included.
get_yahoo_finance_data(entries, symbol, resp, t) ==
  cache_data(entries, symbol, t, fetch_quote(symbol, resp, t))

\* ------------------------------------------------------- forex gateway

\* s[a:b] for 0 <= a <= b: the characters at positions a .. b-1, counted from
\* zero, as far as s has them.
Slice(s, a, b) == SubSeq(s, a + 1, IF b < Len(s) THEN b ELSE Len(s))

\* from_curr = pair[:3]
from_curr(pair) == Slice(pair, 0, 3)

\* The mutant takes everything after the third character.
to_curr_rest(pair) == Slice(pair, 3, Len(pair))

\* to_curr = pair[3:6] if len(pair) > 3 else pair[3:]
to_curr(pair) ==
  IF Len(pair) > 3 THEN Slice(pair, 3, 6) ELSE Slice(pair, 3, Len(pair))

\* The "Realtime Currency Exchange Rate" object: its "5. Exchange Rate" and
\* "6. Last Refreshed" keys, and whether it holds other keys.
Rate(rate, refreshed) == [rate |-> rate, refreshed |-> refreshed, extra |-> FALSE]

EmptyRate == Rate(NoField, NoField)

OtherKeysRate == [EmptyRate EXCEPT !.extra = TRUE]

RateGood ==
  Rate(Field(<<"8","3",".","1","2","5","0">>),
       Field(<<"2","0","2","4","-","1","2","-","3","1">>))

RateBad == Rate(Field(<<"n","/","a">>), NoField)

\* What the CURRENCY_EXCHANGE_RATE endpoint can answer.
RateResponse(kind, hasRate, rate) ==
  [kind |-> kind, hasRate |-> hasRate, rate |-> rate]

RateResponses ==
  {RateResponse("transport_error", FALSE, EmptyRate),
   RateResponse("object", FALSE, EmptyRate),
   RateResponse("object", TRUE, OtherKeysRate),
   RateResponse("object", TRUE, RateBad),
   RateResponse("object", TRUE, RateGood)}

\* The body of get_forex_data(pair) with the endpoint answering resp: the
\* split, one GET naming both currencies, and the dict built from the answer;
\* every exception is caught and the function then returns None. sent is the
\* pair of currencies the request names.
fetch_forex(pair, resp) ==
  [sent |-> [from_currency |-> from_curr(pair), to_currency |-> to_curr(pair)],
   value |->
     IF resp.kind # "object" THEN NoneData
     ELSE IF ~resp.hasRate \/ resp.rate = EmptyRate THEN NoneData
     ELSE IF resp.rate.rate.has /\ ~ParseFloat(resp.rate.rate.text).ok
       THEN NoneData
     ELSE [kind |-> "rate",
           pair |-> from_curr(pair) \o <<"/">> \o to_curr(pair),
           rate |-> IF resp.rate.rate.has
                      THEN ParseFloat(resp.rate.rate.text).value ELSE 0,
           timestamp |-> IF resp.rate.refreshed.has
                           THEN resp.rate.refreshed.text ELSE <<>>]]

\* get_forex_data(pair) as callers see it, decorator included.
get_forex_data(entries, pair, resp, t) ==
  cache_data(entries, pair, t, fetch_forex(pair, resp).value)

\* -------------------------------------------------------- news gateway

\* ttl=1800 of st.cache_data around get_financial_news, in seconds.
NewsTTL == 1800

\* What the top-headlines endpoint can answer: requests.get raising, or an
\* object whose "articles" carry these titles.
NewsResponse(kind, titles) == [kind |-> kind, titles |-> titles]

NewsResponses ==
  {NewsResponse("transport_error", <<>>), NewsResponse("object", <<>>),
   NewsResponse("object", <<"Markets rally", "Rates on hold">>)}

\* The body of get_financial_news: the articles of the answer, or [] after
\* any exception. Only the titles are kept here.
fetch_news(resp) == IF resp.kind # "object" THEN <<>> ELSE resp.titles

\* get_financial_news(top_n=3) as the chat calls it, decorator included: the
\* cached list while its entry is younger than NewsTTL, else the body's.
get_financial_news(entries, resp, t) ==
  IF \E e \in entries : t - e.stored < NewsTTL
    THEN [value |-> (CHOOSE e \in entries : t - e.stored < NewsTTL).value,
          requests |-> 0, entries |-> entries]
    ELSE [value |-> fetch_news(resp), requests |-> 1,
          entries |-> {[key |-> "top_n=3", value |-> fetch_news(resp),
                        stored |-> t]}]

\* ---------------------------------------------------- response composer

PriceWords ==
  << <<"p","r","i","c","e">>,
     <<"s","t","o","c","k">>,
     <<"s","h","a","r","e">> >>

MarketWords ==
  << <<"m","a","r","k","e","t">>,
     <<"g","l","o","b","a","l">>,
     <<"o","v","e","r","v","i","e","w">>,
     <<"t","r","e","n","d">> >>

ForexWords ==
  << <<"f","o","r","e","x">>,
     <<"c","u","r","r","e","n","c","y">>,
     <<"e","x","c","h","a","n","g","e">>,
     <<"u","s","d">>,
     <<"e","u","r">>,
     <<"i","n","r">> >>

CommodityWords ==
  << <<"g","o","l","d">>,
     <<"o","i","l">>,
     <<"c","o","m","m","o","d","i","t","y">>,
     <<"s","i","l","v","e","r">>,
     <<"c","r","u","d","e">> >>

InvestWords ==
  << <<"i","n","v","e","s","t">>,
     <<"p","o","r","t","f","o","l","i","o">>,
     <<"s","t","r","a","t","e","g","y">>,
     <<"a","d","v","i","c","e">> >>

\* any(word in text for word in words)
AnyWordIn(words, text) == \E i \in 1..Len(words) : IsSubstring(words[i], text)

\* The fixed templates, named by their headline; NoneResponse is the value
\* None, returned when the function runs off its end.
Template(name) == [template |-> name]

NoneResponse == Template("None")

\* Python truthiness of the symbol find_symbol returned.
Truthy(symbol) == symbol # None /\ symbol # ""

\* The mutant shows the gain indicator only for a positive change.
ChangeIndicatorStrict(change) == IF change > 0 THEN "gain" ELSE "decline"

\* "gain" stands for the rising-chart sign and the word 'gaining', "decline"
\* for the falling-chart sign and 'declining': float(data["change"]) >= 0.
ChangeIndicator(change) == IF change >= 0 THEN "gain" ELSE "decline"

\* The f-string of the price branch.
PriceTemplate(data, context_data) ==
  [template |-> "price",
   indicator |-> ChangeIndicator(data.change),
   symbol |-> data.symbol,
   price |-> <<"$">> \o Format2f(data.price, FALSE),
   change |-> Format2f(data.change, TRUE),
   change_percent |-> data.change_percent,
   volume |-> data.volume,
   updated |-> data.timestamp,
   context |-> context_data,
   trend |-> ChangeIndicator(data.change),
   note |-> "Quick Analysis"]

\* The price branch from "if data:" on, with got what the gateway handed back
\* for the symbol found: the price template, or nothing.
QuoteBranch(found, got, context_data) ==
  [response |-> IF got.value # NoneData
                  THEN PriceTemplate(got.value, context_data)
                  ELSE NoneResponse,
   symbol |-> found.symbol, data |-> got.value,
   searchRequests |-> found.requests, quoteCalls |-> 1,
   quoteRequests |-> got.requests, entries |-> got.entries]

\* The mutant answers with the help template when no symbol is found.
PriceBranchHelp(found, context_data, entries, quoteAnswer, t) ==
  IF Truthy(found.symbol)
    THEN QuoteBranch(found,
                     get_yahoo_finance_data(entries, found.symbol, quoteAnswer, t),
                     context_data)
    ELSE [response |-> Template("help"), symbol |-> found.symbol,
          data |-> NoneData, searchRequests |-> found.requests,
          quoteCalls |-> 0, quoteRequests |-> 0, entries |-> entries]

\* The price branch from "if symbol:" on, with found what find_symbol
\* returned: the quote is asked for only when the symbol is truthy.
PriceBranch(found, context_data, entries, quoteAnswer, t) ==
  IF Truthy(found.symbol)
    THEN QuoteBranch(found,
                     get_yahoo_finance_data(entries, found.symbol, quoteAnswer, t),
                     context_data)
    ELSE [response |-> NoneResponse, symbol |-> found.symbol,
          data |-> NoneData, searchRequests |-> found.requests,
          quoteCalls |-> 0, quoteRequests |-> 0, entries |-> entries]

\* generate_fallback_response(user_query, context_data) at time t, with the
\* quote cache holding entries and the endpoints answering searchAnswer and
\* quoteAnswer. The price branch is an if whose nested ifs have no else, and
\* the other buckets hang off it as elif: once a price word is found, the
\* function either returns the price template or runs off its end.
generate_fallback_response(user_query, context_data, entries, searchAnswer, quoteAnswer, t) ==
  LET query_lower == lower(user_query)
      plain(name) ==
        [response |-> Template(name), symbol |-> None, data |-> NoneData,
         searchRequests |-> 0, quoteCalls |-> 0, quoteRequests |-> 0,
         entries |-> entries]
  IN  IF AnyWordIn(PriceWords, query_lower)
        THEN PriceBranch(find_symbol(user_query, searchAnswer), context_data,
                         entries, quoteAnswer, t)
      ELSE IF AnyWordIn(MarketWords, query_lower) THEN plain("market")
      ELSE IF AnyWordIn(ForexWords, query_lower) THEN plain("forex")
      ELSE IF AnyWordIn(CommodityWords, query_lower) THEN plain("commodity")
      ELSE IF AnyWordIn(InvestWords, query_lower) THEN plain("investment")
      ELSE plain("help")

\* The candidate model identifiers, in the order they are tried.
model_names ==
  <<"gemini-1.5-flash", "gemini-1.5-pro", "gemini-pro", "models/gemini-pro">>

\* The positions of the candidates that genai.GenerativeModel accepts.
Instantiated(world) ==
  {i \in 1..Len(model_names) : model_names[i] \in world.instantiable}

\* The text a model generated.
ModelText(name) == [template |-> "model", text |-> name]

\* What generate_ai_response hands back when it returns the fallback's answer.
ViaFallback(fallback) ==
  [response |-> fallback.response, raised |-> FALSE, model |-> None,
   usedFallback |-> TRUE, symbol |-> fallback.symbol, data |-> fallback.data,
   searchRequests |-> fallback.searchRequests,
   quoteCalls |-> fallback.quoteCalls,
   quoteRequests |-> fallback.quoteRequests, entries |-> fallback.entries]

\* What it hands back when it returns response.text of the named model.
ViaModel(name, entries) ==
  [response |-> ModelText(name), raised |-> FALSE, model |-> name,
   usedFallback |-> FALSE, symbol |-> None, data |-> NoneData,
   searchRequests |-> 0, quoteCalls |-> 0, quoteRequests |-> 0,
   entries |-> entries]

\* The mutant moves on to the next candidate when generation fails.
generate_ai_response_try_next(user_query, context_data, entries, searchAnswer, quoteAnswer, world, t) ==
  LET good == {i \in Instantiated(world) :
                 world.outcome[model_names[i]] = "text"}
  IN  IF good = {}
        THEN ViaFallback(generate_fallback_response(user_query, context_data,
                           entries, searchAnswer, quoteAnswer, t))
        ELSE ViaModel(model_names[SetMin(good)], entries)

\* generate_ai_response(user_query, context_data) in a world that says which
\* candidates instantiate and how each one's generate_content call ends. The
\* loop keeps the first candidate that instantiates (an exception from the
\* constructor moves on to the next); with no candidate, or with any exception
\* from generate_content or response.text, the except clause returns the
\* fallback's answer. Nothing the function calls lets an exception out, so
\* raised is FALSE on every path.
generate_ai_response(user_query, context_data, entries, searchAnswer, quoteAnswer, world, t) ==
  LET usable == Instantiated(world)
      model == IF usable = {} THEN None ELSE model_names[SetMin(usable)]
  IN  IF model # None /\ world.outcome[model] = "text"
        THEN ViaModel(model, entries)
        ELSE ViaFallback(generate_fallback_response(user_query, context_data,
                           entries, searchAnswer, quoteAnswer, t))

\* ------------------------------------------------------------ chat

\* The keywords that make the chat look up market data for the context.
ContextWords ==
  << <<"p","r","i","c","e">>, <<"s","t","o","c","k">>, <<"r","a","t","e">>,
     <<"f","o","r","e","x">>, <<"c","o","m","m","o","d","i","t","y">> >>

\* context_data: "Current data for {symbol}: ..." when a quote was found,
\* then the titles of up to three news articles when there are any; the empty
\* string is the record with neither.
Context(symbol, market_data, news) ==
  [symbol |-> IF market_data # NoneData THEN symbol ELSE None,
   market |-> market_data,
   news |-> Slice(news, 0, 3)]

\* One entry of st.session_state.messages.
Message(role, content) == [role |-> role, content |-> content]

\* --------------------------------------------------------- ledger store
\* A date is <<year, month, day>>; the date column holds its ISO text.

RECURSIVE ZeroPad(_, _)
ZeroPad(text, width) ==
  IF Len(text) >= width THEN text ELSE ZeroPad(<<"0">> \o text, width)

\* datetime.date.isoformat(): YYYY-MM-DD
isoformat(d) ==
  ZeroPad(NatText(d[1]), 4) \o <<"-">> \o ZeroPad(NatText(d[2]), 2)
    \o <<"-">> \o ZeroPad(NatText(d[3]), 2)

\* The byte of a character of a date text, as SQLite's BINARY collation
\* compares it: '-' sorts before the digits.
CharCode(c) == IF c = "-" THEN 45 ELSE 48 + DigitVal(c)

\* a <= b for TEXT values under the BINARY collation (memcmp, then length).
TextLeq(a, b) ==
  LET n == IF Len(a) < Len(b) THEN Len(a) ELSE Len(b)
      diff == {i \in 1..n : a[i] # b[i]}
  IN  IF diff = {} THEN Len(a) <= Len(b)
      ELSE CharCode(a[SetMin(diff)]) < CharCode(b[SetMin(diff)])

\* The rows of the table taken in the order order: a sequence of positions.
Arrange(table, order) == [i \in 1..Len(table) |-> table[order[i]]]

Orders(n) == {f \in [1..n -> 1..n] : \A i, j \in 1..n : i # j => f[i] # f[j]}

\* The mutant returns the rows as the table scan meets them, by rowid.
OrderByRowid(table, order) == \A i \in 1..Len(table) : order[i] = i

\* ORDER BY date: each row's date is <= the next row's; rows with equal dates
\* may come in any order.
OrderByDate(table, order) ==
  \A i \in 1..(Len(table) - 1) :
    TextLeq(table[order[i]].date, table[order[i + 1]].date)

\* What get_all_transactions() may return for the stored rows.
get_all_transactions(table) ==
  {Arrange(table, order) : order \in {o \in Orders(Len(table)) :
                                        OrderByDate(table, o)}}

\* The row add_transaction(category, amount, date) inserts when the table's
\* AUTOINCREMENT counter stands at lastId: date None becomes today's ISO text.
NewRow(lastId, category, amount, date, day) ==
  [id |-> lastId + 1, category |-> category, amount |-> amount,
   date |-> IF date.given THEN date.text ELSE isoformat(day)]

\* ------------------------------------------------------------- inputs

AppleQuestion ==
  <<"W","h","a","t","'","s"," ","A","p","p","l","e","'","s"," ","s","t","o","c","k"," ","p","r","i","c","e","?">>

GoldPriceToday ==
  <<"g","o","l","d"," ","p","r","i","c","e"," ","t","o","d","a","y">>

NonexistentXyz ==
  <<"n","o","n","e","x","i","s","t","e","n","t","-","x","y","z">>

SharePrice == <<"s","h","a","r","e"," ","p","r","i","c","e">>

MarketTrend == <<"M","a","r","k","e","t"," ","t","r","e","n","d","?">>

UsdToInr ==
  <<"U","S","D"," ","t","o"," ","I","N","R"," ","e","x","c","h","a","n","g","e"," ","r","a","t","e">>

GoldAnalysis == <<"G","o","l","d"," ","a","n","a","l","y","s","i","s">>

InvestAdvice ==
  <<"i","n","v","e","s","t","m","e","n","t"," ","a","d","v","i","c","e">>

Hello == <<"h","e","l","l","o">>

GoldMarket == <<"g","o","l","d"," ","m","a","r","k","e","t">>

OilCurrency ==
  <<"o","i","l"," ","a","n","d"," ","c","u","r","r","e","n","c","y">>

StockMarketOverview ==
  <<"S","t","o","c","k"," ","m","a","r","k","e","t"," ","o","v","e","r","v","i","e","w">>

PortfolioGold ==
  <<"p","o","r","t","f","o","l","i","o"," ","w","i","t","h"," ","g","o","l","d">>

TeslaShare == <<"T","E","S","L","A"," ","s","h","a","r","e">>

\* Questions put to the chat: every bucket alone, several buckets at once,
\* price questions with and without a known alias, and no bucket at all.
ChatQueries ==
  {AppleQuestion, GoldPriceToday, SharePrice, TeslaShare, StockMarketOverview,
   MarketTrend, GoldMarket, UsdToInr, OilCurrency, GoldAnalysis, PortfolioGold,
   InvestAdvice, Hello}

Contexts == {<<>>, <<"n","e","w","s">>}

\* Which candidates instantiate, and how generate_content ends for each:
\* "text", or an exception ("generation_error", "network_error") or a response
\* whose .text raises ("no_text").
ModelWorld(instantiable, generating, failure) ==
  [instantiable |-> instantiable,
   outcome |-> [n \in {model_names[i] : i \in 1..Len(model_names)} |->
                  IF n \in generating THEN "text" ELSE failure]]

ModelWorlds ==
  {ModelWorld(inst, gen, fail) :
     inst \in {{}, {"gemini-1.5-flash"}, {"gemini-1.5-pro", "gemini-pro"},
               {"models/gemini-pro"},
               {model_names[i] : i \in 1..Len(model_names)}},
     gen \in {{}, {"gemini-1.5-flash", "gemini-1.5-pro"},
              {"gemini-pro", "models/gemini-pro"}},
     fail \in {"generation_error", "network_error", "no_text"}}

\* The days the process lives through, across a year's end.
Calendar == << <<2024, 12, 31>>, <<2025, 1, 1>> >>

\* The date argument of add_transaction: omitted, or an ISO date text.
DateOmitted == [given |-> FALSE, text |-> <<>>]

DateGiven(d) == [given |-> TRUE, text |-> isoformat(d)]

LedgerDates ==
  {DateOmitted, DateGiven(<<2024, 2, 9>>), DateGiven(<<2025, 1, 1>>)}

\* The pair arguments of get_forex_data: the sidebar's six-letter pairs, a
\* catalog forex symbol, and texts shorter and longer than six characters.
ForexPairArgs ==
  {<<"U","S","D","I","N","R">>, <<"E","U","R","U","S","D">>,
   <<"E","U","R","U","S","D","=","X">>, <<"E","U","R","U","S","D","X">>,
   <<"E","U","R","U">>, <<"E","U","R">>, <<"E","U">>, <<>>}

\* Category and amount (in hundredths) of the entries recorded.
LedgerEntries == {<<"groceries", 4250>>, <<"rent", 120000>>}

\* Every contiguous piece of an alias, the empty text included.
Pieces(a) == {SubSeq(a, i, j) : i \in 1..Len(a), j \in 1..Len(a)}

\* An alias as a user would type it: capitalised, with surrounding whitespace.
Typed(a) ==
  <<" ">> \o [i \in 1..Len(a) |-> IF i = 1 THEN UpperChar(a[i]) ELSE a[i]]
          \o <<" ", "\n">>

ResolverQueries ==
  Aliases \cup UNION {Pieces(a) : a \in Aliases} \cup {Typed(a) : a \in Aliases}
    \cup {AppleQuestion, GoldPriceToday, NonexistentXyz, SharePrice}

\* ---------------------------------------------------------------- state

\* Symbols the page asks quotes for (sidebar, categories).
QuoteSymbols == {"AAPL", "GC=F"}

\* Bounds of the exploration: clock advances and gateway calls per behaviour.
MaxTicks == 4

MaxCalls == 3

\* Gateway calls made by the rest of the page before the chat is answered.
MaxPrefetch == 1

\* Ledger: rows inserted per behaviour.
MaxRows == 3

\* Forex gateway: calls of get_forex_data per behaviour.
MaxForexCalls == 2

\* Chat: prompts submitted per session.
MaxChats == 2

\* The clock advances by a second or by a second less than the TTL, so that
\* entries are seen just before, at and just after their expiry.
TickSteps == {1, TTL - 1}

VARIABLES
  op,          \* the operation that ran last
  query,       \* its text argument
  searchResp,  \* what the symbol-search endpoint answered during it
  resolved,    \* what find_symbol returned
  now,         \* the clock, in seconds
  ticks,       \* how often the clock has advanced
  cache,       \* the entries of st.cache_data for get_yahoo_finance_data
  calls,       \* history: the calls of get_yahoo_finance_data so far
  ctx,         \* the context_data argument of the composer
  quoteResp,   \* what the quote endpoint would answer during the composer
  world,       \* which models instantiate and generate during the composer
  reply,       \* what the composer returned
  table,       \* finance.db: whether transactions exists, its rows by rowid,
               \* and the AUTOINCREMENT counter
  today,       \* the position of the current day in Calendar
  added,       \* history: the add_transaction calls that returned
  reinit,      \* history: init_db has run on a table that held rows
  fetched,     \* the rows the last ledger call returned, if it returned any
  raised,      \* whether the last ledger call raised
  forexCache,  \* the entries of st.cache_data for get_forex_data
  forexCalls,  \* history: the calls of get_forex_data so far
  messages,    \* st.session_state.messages
  submitted,   \* history: each prompt submitted, with the response composed
  newsCache    \* the entries of st.cache_data for get_financial_news

vars ==
  <<op, query, searchResp, resolved, now, ticks, cache, calls, ctx, quoteResp,
    world, reply, table, today, added, reinit, fetched, raised, forexCache,
    forexCalls, messages, submitted, newsCache>>

forexVars == <<forexCache, forexCalls>>

sessionVars == <<messages, submitted, newsCache>>

ledgerVars == <<table, today, added, reinit, fetched, raised>>

resolverVars == <<query, searchResp, resolved>>

composerVars == <<ctx, quoteResp, world, reply>>

gatewayVars == <<now, ticks, cache, calls>>

NoSearch ==
  [kind |-> "transport_error", hasBestMatches |-> FALSE, bestMatches |-> <<>>]

NotResolved ==
  [symbol |-> None, path |-> "none", requests |-> 0, raised |-> FALSE]

\* The process has started: nothing cached, nothing asked.
GatewayFresh == now = 0 /\ ticks = 0 /\ cache = {} /\ calls = <<>>

ResolverIdle == query = <<>> /\ searchResp = NoSearch /\ resolved = NotResolved

\* No database file yet: no table.
LedgerAbsent ==
  /\ table = [exists |-> FALSE, rows |-> <<>>, lastId |-> 0]
  /\ today = 1
  /\ added = <<>>
  /\ reinit = FALSE
  /\ fetched = <<>>
  /\ raised = FALSE

\* No currency rate asked for yet, and a session with no chat turn.
ForexFresh == forexCache = {} /\ forexCalls = <<>>

NoMessages == messages = <<>> /\ submitted = <<>> /\ newsCache = {}

NoModels == ModelWorld({}, {}, "generation_error")

ComposerIdle ==
  /\ ctx = <<>>
  /\ quoteResp = QuoteResponse("transport_error", FALSE, EmptyQuote)
  /\ world = NoModels
  /\ reply = [response |-> NoneResponse]

\* The resolver is a pure function of the query and of what the search
\* endpoint answers: the inputs are drawn here and find_symbol is applied once.
InitResolve ==
  /\ op = "start"
  /\ query \in ResolverQueries
  /\ searchResp \in SearchResponses
  /\ resolved = NotResolved
  /\ GatewayFresh
  /\ ComposerIdle
  /\ LedgerAbsent
  /\ ForexFresh
  /\ NoMessages

\* A call of find_symbol(query), as the quick-quote box makes it.
FindSymbol ==
  /\ op = "start"
  /\ op' = "find_symbol"
  /\ resolved' = find_symbol(query, searchResp)
  /\ UNCHANGED <<query, searchResp>>
  /\ UNCHANGED gatewayVars
  /\ UNCHANGED composerVars
  /\ UNCHANGED ledgerVars
  /\ UNCHANGED forexVars
  /\ UNCHANGED sessionVars

NextResolve == FindSymbol

SpecResolve == InitResolve /\ [][NextResolve]_vars

InitQuote ==
  /\ op = "start"
  /\ ResolverIdle
  /\ GatewayFresh
  /\ ComposerIdle
  /\ LedgerAbsent
  /\ ForexFresh
  /\ NoMessages

\* Time passes.
Tick(d) ==
  /\ ticks < MaxTicks
  /\ op' = "tick"
  /\ now' = now + d
  /\ ticks' = ticks + 1
  /\ UNCHANGED <<cache, calls>>
  /\ UNCHANGED resolverVars
  /\ UNCHANGED composerVars
  /\ UNCHANGED ledgerVars
  /\ UNCHANGED forexVars
  /\ UNCHANGED sessionVars

\* A call of get_yahoo_finance_data(symbol) while the endpoint would answer
\* resp; the history records whether it went out and what came back.
GetQuote(symbol, resp) ==
  \E r \in {get_yahoo_finance_data(cache, symbol, resp, now)} :
      /\ Len(calls) < MaxCalls
      /\ op' = "get_quote"
      /\ cache' = r.entries
      /\ calls' = Append(calls, [symbol |-> symbol, at |-> now,
                                 requests |-> r.requests,
                                 failed |-> r.requests = 1 /\ QuoteFails(resp),
                                 none |-> r.value = NoneData])
      /\ UNCHANGED <<now, ticks>>
      /\ UNCHANGED resolverVars
      /\ UNCHANGED composerVars
      /\ UNCHANGED ledgerVars
      /\ UNCHANGED forexVars
      /\ UNCHANGED sessionVars

NextQuote ==
  \/ \E d \in TickSteps : Tick(d)
  \/ \E s \in QuoteSymbols, resp \in GatewayResponses : GetQuote(s, resp)

SpecQuote == InitQuote /\ [][NextQuote]_vars

\* The history entry of the quote call a composer run made, if it made one.
Logged(r, symbol, t, answer) ==
  IF r.quoteCalls = 0 THEN calls
  ELSE Append(calls, [symbol |-> symbol, at |-> t, requests |-> r.quoteRequests,
                      failed |-> r.quoteRequests = 1 /\ QuoteFails(answer),
                      none |-> r.data = NoneData])

\* The sidebar and the market tools ask for quotes before the chat answers.
Prefetch(symbol, resp) ==
  /\ op \in {"start", "get_quote"}
  /\ Len(calls) < MaxPrefetch
  /\ GetQuote(symbol, resp)

\* generate_fallback_response(q, c), applied once to a drawn question.
Fallback(q, c, searchAnswer, quoteAnswer) ==
  \E r \in {generate_fallback_response(q, c, cache, searchAnswer, quoteAnswer, now)} :
      /\ op \in {"start", "get_quote"}
      /\ op' = "fallback"
      /\ query' = q
      /\ ctx' = c
      /\ searchResp' = searchAnswer
      /\ quoteResp' = quoteAnswer
      /\ reply' = r
      /\ cache' = r.entries
      /\ calls' = Logged(r, r.symbol, now, quoteAnswer)
      /\ UNCHANGED <<resolved, now, ticks, world>>
      /\ UNCHANGED ledgerVars
      /\ UNCHANGED forexVars
      /\ UNCHANGED sessionVars

InitFallback == InitQuote

NextFallback ==
  \/ \E s \in QuoteSymbols, resp \in GatewayResponses : Prefetch(s, resp)
  \/ /\ op \in {"start", "get_quote"}
     /\ \E q \in ChatQueries, c \in Contexts, sa \in SearchResponses,
           qa \in QuoteResponses : Fallback(q, c, sa, qa)

SpecFallback == InitFallback /\ [][NextFallback]_vars

\* generate_ai_response(q, c), as the chat calls it, applied once.
Compose(q, c, searchAnswer, quoteAnswer, w) ==
  \E r \in {generate_ai_response(q, c, cache, searchAnswer, quoteAnswer, w, now)} :
      /\ op = "start"
      /\ op' = "compose"
      /\ query' = q
      /\ ctx' = c
      /\ searchResp' = searchAnswer
      /\ quoteResp' = quoteAnswer
      /\ world' = w
      /\ reply' = r
      /\ cache' = r.entries
      /\ calls' = Logged(r, r.symbol, now, quoteAnswer)
      /\ UNCHANGED <<resolved, now, ticks>>
      /\ UNCHANGED ledgerVars
      /\ UNCHANGED forexVars
      /\ UNCHANGED sessionVars

InitCompose == InitQuote

\* The answers of the search endpoint that differ for the composer.
ChatSearchResponses ==
  {NoSearch,
   [kind |-> "object", hasBestMatches |-> TRUE, bestMatches |-> <<>>],
   [kind |-> "object", hasBestMatches |-> TRUE,
    bestMatches |-> <<Match("XYZ")>>]}

NextCompose ==
  /\ op = "start"
  /\ \E q \in ChatQueries, c \in Contexts, sa \in ChatSearchResponses,
        qa \in GatewayResponses, w \in ModelWorlds : Compose(q, c, sa, qa, w)

SpecCompose == InitCompose /\ [][NextCompose]_vars

InitLedger == InitQuote

othersVars ==
  <<query, searchResp, resolved, now, ticks, cache, calls, ctx, quoteResp,
    world, reply, forexCache, forexCalls, messages, submitted, newsCache>>

\* init_db(): CREATE TABLE IF NOT EXISTS leaves an existing table as it is.
InitDb ==
  /\ op' = "init_db"
  /\ table' = IF table.exists THEN table ELSE [table EXCEPT !.exists = TRUE]
  /\ reinit' = (reinit \/ table.rows # <<>>)
  /\ raised' = FALSE
  /\ fetched' = <<>>
  /\ UNCHANGED <<today, added>>
  /\ UNCHANGED othersVars

\* add_transaction(category, amount, date): one INSERT, committed; without
\* the table the INSERT raises sqlite3.OperationalError and nothing is stored.
AddTransaction(category, amount, date) ==
  /\ Len(added) < MaxRows
  /\ op' = "add_transaction"
  /\ IF table.exists
       THEN /\ table' = [table EXCEPT
                          !.rows = Append(@, NewRow(table.lastId, category,
                                                    amount, date,
                                                    Calendar[today])),
                          !.lastId = @ + 1]
            /\ added' = Append(added, [category |-> category,
                                       amount |-> amount, date |-> date,
                                       day |-> Calendar[today]])
            /\ raised' = FALSE
       ELSE /\ raised' = TRUE
            /\ UNCHANGED <<table, added>>
  /\ fetched' = <<>>
  /\ UNCHANGED <<today, reinit>>
  /\ UNCHANGED othersVars

\* get_all_transactions(): SELECT ... ORDER BY date; raises without the table.
GetAllTransactions ==
  /\ op' = "get_all_transactions"
  /\ IF table.exists
       THEN /\ fetched' \in get_all_transactions(table.rows)
            /\ raised' = FALSE
       ELSE /\ raised' = TRUE
            /\ fetched' = <<>>
  /\ UNCHANGED <<table, today, added, reinit>>
  /\ UNCHANGED othersVars

\* Midnight passes.
NextDay ==
  /\ today < Len(Calendar)
  /\ op' = "next_day"
  /\ today' = today + 1
  /\ UNCHANGED <<table, added, reinit, fetched, raised>>
  /\ UNCHANGED othersVars

NextLedger ==
  \/ InitDb
  \/ \E e \in LedgerEntries, d \in LedgerDates : AddTransaction(e[1], e[2], d)
  \/ GetAllTransactions
  \/ NextDay

SpecLedger == InitLedger /\ [][NextLedger]_vars

\* The currencies of a call that was answered from the cache: none were sent.
NoneSent == [from_currency |-> <<>>, to_currency |-> <<>>]

\* A call of get_forex_data(pair), as the sidebar makes it for each of its
\* pairs, with the endpoint answering resp.
GetForex(pair, resp) ==
  \E r \in {get_forex_data(forexCache, pair, resp, now)} :
    /\ Len(forexCalls) < MaxForexCalls
    /\ op' = "get_forex_data"
    /\ forexCache' = r.entries
    /\ forexCalls' = Append(forexCalls,
                            [pair |-> pair, requests |-> r.requests,
                             sent |-> IF r.requests = 1
                                        THEN fetch_forex(pair, resp).sent
                                        ELSE NoneSent,
                             value |-> r.value])
    /\ UNCHANGED sessionVars
    /\ UNCHANGED resolverVars
    /\ UNCHANGED gatewayVars
    /\ UNCHANGED composerVars
    /\ UNCHANGED ledgerVars

InitForex == InitQuote

NextForex == \E pair \in ForexPairArgs, resp \in RateResponses : GetForex(pair, resp)

SpecForex == InitForex /\ [][NextForex]_vars

\* What is typed into the chat, what the endpoints answer meanwhile, and the
\* model worlds: no candidate, the first candidate generating, the first
\* instantiable candidate failing.
ChatPrompts == {AppleQuestion, GoldPriceToday, SharePrice, Hello}

ChatQuoteResponses ==
  {QuoteResponse("transport_error", FALSE, EmptyQuote),
   QuoteResponse("object", TRUE, AppleUp)}

ChatSearchAnswers ==
  {NoSearch,
   [kind |-> "object", hasBestMatches |-> TRUE,
    bestMatches |-> <<Match("XYZ")>>]}

ChatNewsResponses ==
  {NewsResponse("transport_error", <<>>),
   NewsResponse("object", <<"Markets rally", "Rates on hold">>)}

ChatWorlds ==
  {ModelWorld({}, {}, "network_error"),
   ModelWorld({"gemini-1.5-flash"}, {"gemini-1.5-flash", "gemini-1.5-pro"},
              "generation_error"),
   ModelWorld({"gemini-1.5-pro", "gemini-pro"},
              {"gemini-pro", "models/gemini-pro"}, "generation_error")}

\* The history entry of one quote call.
CallRecord(symbol, t, got, answer) ==
  [symbol |-> symbol, at |-> t, requests |-> got.requests,
   failed |-> got.requests = 1 /\ QuoteFails(answer),
   none |-> got.value = NoneData]

\* A prompt submitted to st.chat_input: the user turn is appended, market
\* data and news are collected into context_data, generate_ai_response
\* composes the response, and the assistant turn is appended. The endpoints
\* answer the same way throughout one run of the handler.
ChatInput(prompt, searchAnswer, quoteAnswer, newsAnswer, w) ==
  \E found \in {IF AnyWordIn(ContextWords, lower(prompt))
                   THEN find_symbol(prompt, searchAnswer) ELSE NotResolved} :
  \E got \in {IF Truthy(found.symbol)
                 THEN get_yahoo_finance_data(cache, found.symbol, quoteAnswer, now)
                 ELSE [value |-> NoneData, requests |-> 0, entries |-> cache]} :
  \E news \in {get_financial_news(newsCache, newsAnswer, now)} :
  \E context_data \in {Context(found.symbol, got.value, news.value)} :
  \E response \in {generate_ai_response(prompt, context_data, got.entries,
                                        searchAnswer, quoteAnswer, w, now)} :
    /\ op' = "chat_input"
    /\ messages' = messages \o <<Message("user", prompt),
                                  Message("assistant", response.response)>>
    /\ submitted' = Append(submitted, [prompt |-> prompt,
                                       response |-> response.response])
    /\ cache' = response.entries
    /\ newsCache' = news.entries
    /\ calls' = calls
                 \o (IF Truthy(found.symbol)
                       THEN <<CallRecord(found.symbol, now, got, quoteAnswer)>>
                       ELSE <<>>)
                 \o (IF response.quoteCalls = 0 THEN <<>>
                     ELSE <<[symbol |-> response.symbol, at |-> now,
                             requests |-> response.quoteRequests,
                             failed |-> /\ response.quoteRequests = 1
                                        /\ QuoteFails(quoteAnswer),
                             none |-> response.data = NoneData]>>)
    /\ UNCHANGED <<now, ticks>>
    /\ UNCHANGED resolverVars
    /\ UNCHANGED composerVars
    /\ UNCHANGED ledgerVars
    /\ UNCHANGED forexVars

InitChat == InitQuote

NextChat ==
  /\ Len(submitted) < MaxChats
  /\ \E prompt \in ChatPrompts, sa \in ChatSearchAnswers,
        qa \in ChatQuoteResponses, na \in ChatNewsResponses, w \in ChatWorlds :
       ChatInput(prompt, sa, qa, na, w)

SpecChat == InitChat /\ [][NextChat]_vars


\* ----------------------------------------------- properties: resolver

BankNifty == <<"b","a","n","k"," ","n","i","f","t","y">>

SpaceAirtel == <<" ","a","i","r","t","e","l">>

\* The text find_symbol works on: lowercased, then stripped.
Normalized(q) == strip(lower(q))

\* C1: for every alias A registered in a catalog table, find_symbol(A) returns
\* exactly the symbol registered for A, from the direct-match step: it reaches
\* neither the partial-match loop nor the remote search.
C1_AliasResolvesToRegistered ==
  (op = "find_symbol" /\ query \in Aliases) =>
    /\ \A p \in Registered : p[1] = query => resolved.symbol = p[2]
    /\ resolved.path = "direct"
    /\ resolved.requests = 0
    /\ ~resolved.raised

\* C1 witness: 'bank nifty', which contains the alias 'nifty', was resolved to
\* its own symbol.
C1_Witness ==
  /\ op = "find_symbol"
  /\ query = BankNifty
  /\ resolved.symbol = "^NSEBANK"
  /\ resolved.path = "direct"

\* C2: for every query whose normalized form is a substring of exactly one
\* alias, and of which no alias is a substring, find_symbol returns that
\* alias's symbol and issues no search request.
C2_UniqueSubstringResolves ==
  LET n == Normalized(query)
      containing == {p \in Registered : IsSubstring(n, p[1])}
  IN  ( /\ op = "find_symbol"
        /\ Cardinality({p[1] : p \in containing}) = 1
        /\ \A a \in Aliases : ~IsSubstring(a, n) ) =>
        /\ \A p \in containing : resolved.symbol = p[2]
        /\ resolved.requests = 0
        /\ ~resolved.raised

\* C2 witness: ' airtel' (normalized 'airtel') lies in 'bharti airtel' alone
\* and was resolved to its symbol by the partial-match loop.
C2_Witness ==
  /\ op = "find_symbol"
  /\ query = SpaceAirtel
  /\ resolved.symbol = "BHARTIARTL.NS"
  /\ resolved.path = "partial"

\* C9: when the query matches no alias exactly or by substring and the search
\* request fails (network error, malformed body, empty or missing
\* 'bestMatches'), find_symbol returns None without raising, after exactly one
\* search request; so does find_symbol("nonexistent-xyz").
C9_FailedSearchIsNotFound ==
  LET n == Normalized(query)
  IN  ( /\ op = "find_symbol"
        /\ \A a \in Aliases : ~IsSubstring(a, n) /\ ~IsSubstring(n, a)
        /\ SearchFails(searchResp) ) =>
        /\ resolved.symbol = None
        /\ resolved.path = "none"
        /\ ~resolved.raised
        /\ resolved.requests = 1

\* C9 witness: "nonexistent-xyz" was looked up while the search endpoint was
\* unreachable, and the answer was None.
C9_Witness ==
  /\ op = "find_symbol"
  /\ query = NonexistentXyz
  /\ searchResp.kind = "transport_error"
  /\ resolved.symbol = None
  /\ resolved.requests = 1

\* ------------------------------------------ properties: quote gateway

\* C3: two calls of get_yahoo_finance_data with the same symbol less than TTL
\* seconds apart issue at most one outbound request between them; and a call
\* made TTL seconds or more after the symbol's latest outbound request issues
\* a new one.
C3_OneRequestPerWindow ==
  /\ \A i, j \in 1..Len(calls) :
       ( /\ i < j
         /\ calls[i].symbol = calls[j].symbol
         /\ calls[j].at - calls[i].at < TTL ) =>
         calls[i].requests + calls[j].requests <= 1
  /\ \A j \in 1..Len(calls) :
       LET sent == {i \in 1..(j - 1) : /\ calls[i].symbol = calls[j].symbol
                                       /\ calls[i].requests = 1}
       IN  (sent # {} /\ calls[j].at - calls[SetMax(sent)].at >= TTL) =>
             calls[j].requests = 1

\* C3 witness: a symbol was fetched, asked again later inside the window
\* without a request, and asked once more after the window with a new request.
C3_Witness ==
  \E i, j, k \in 1..Len(calls) :
    /\ i < j /\ j < k
    /\ calls[i].symbol = calls[j].symbol /\ calls[j].symbol = calls[k].symbol
    /\ calls[i].requests = 1
    /\ calls[i].at < calls[j].at /\ calls[j].at - calls[i].at < TTL
    /\ calls[j].requests = 0
    /\ calls[k].at - calls[i].at >= TTL
    /\ calls[k].requests = 1

\* C4: a failed call of get_yahoo_finance_data returns None and is not
\* cached: the next call with the same symbol, less than TTL seconds later,
\* issues a new outbound request. (The decorator stores the None, so the next
\* call is answered from the cache: this statement is violated.)
C4_FailureNotCached ==
  \A i \in 1..Len(calls) :
    calls[i].failed =>
      /\ calls[i].none
      /\ \A j \in (i + 1)..Len(calls) :
           ( /\ calls[j].symbol = calls[i].symbol
             /\ \A k \in (i + 1)..(j - 1) : calls[k].symbol # calls[i].symbol
             /\ calls[j].at - calls[i].at < TTL ) =>
             calls[j].requests = 1

\* --------------------------------------------- properties: composer

\* The candidate that instantiates and has no instantiating candidate before
\* it in model_names, or None.
FirstInstantiable(w) ==
  LET at == {i \in 1..Len(model_names) :
               /\ model_names[i] \in w.instantiable
               /\ \A j \in 1..(i - 1) : model_names[j] \notin w.instantiable}
  IN  IF at = {} THEN None ELSE model_names[CHOOSE i \in at : TRUE]

\* C5: generate_ai_response never raises; it returns the model's text exactly
\* when the first instantiable candidate generates successfully, and in every
\* other case (no candidate instantiates, generation or network failure) what
\* generate_fallback_response(user_query, context_data) returns. The quote
\* cache is empty when the composer starts in this specification.
C5_ModelOrFallback ==
  op = "compose" =>
    LET first == FirstInstantiable(world)
        generated == first # None /\ world.outcome[first] = "text"
        fallback == generate_fallback_response(query, ctx, {}, searchResp,
                                               quoteResp, now)
    IN  /\ ~reply.raised
        /\ generated => reply.response = ModelText(first) /\ ~reply.usedFallback
        /\ ~generated =>
             reply.response = fallback.response /\ reply.usedFallback
        /\ reply.response.template = "model" => generated

\* C5 witness: the first instantiable candidate failed to generate while a
\* later instantiable one would have succeeded, and the fallback's answer was
\* returned.
C5_Witness ==
  /\ op = "compose"
  /\ FirstInstantiable(world) = "gemini-1.5-pro"
  /\ world.outcome["gemini-1.5-pro"] = "network_error"
  /\ "gemini-pro" \in world.instantiable
  /\ world.outcome["gemini-pro"] = "text"
  /\ reply.usedFallback
  /\ reply.response = Template("market")

\* The buckets in the order of the claim, each with its template.
Buckets ==
  << <<PriceWords, "price">>, <<MarketWords, "market">>,
     <<ForexWords, "forex">>, <<CommodityWords, "commodity">>,
     <<InvestWords, "investment">> >>

FirstBucket(text) ==
  LET hit == {i \in 1..Len(Buckets) : AnyWordIn(Buckets[i][1], text)}
  IN  IF hit = {} THEN "help" ELSE Buckets[SetMin(hit)][2]

\* C6: the fallback's response is the template of the first bucket, in the
\* order price, market, forex, commodity, investment, that has a keyword
\* contained in the lowercased query, and the generic help template when no
\* bucket has one. (A price question whose symbol or quote is not found gets
\* no response at all, so this statement is violated.)
C6_FirstBucketWins ==
  op = "fallback" => reply.response.template = FirstBucket(lower(query))

\* C7: for "gold price today" with every network call failing (no quote, no
\* search) the fallback's response is the commodity template. (The word
\* 'price' selects the price branch, which ends without a response: this
\* statement is violated.)
C7_GoldPriceTodayIsCommodity ==
  ( /\ op = "fallback"
    /\ query = GoldPriceToday
    /\ SearchFails(searchResp)
    /\ QuoteFails(quoteResp)
    /\ \A i \in 1..Len(calls) : calls[i].none ) =>
    reply.response = Template("commodity")

\* C8: on the fallback path, when the query has a price keyword and both the
\* symbol resolution and the quote fetch succeed, the response is the price
\* template with the quote's symbol, its price, its signed change and the
\* quick-analysis note, showing the gain indicator exactly when change >= 0
\* and the decline indicator exactly when change < 0; the symbol resolved
\* from "What's Apple's stock price?" is AAPL, and with the quote AAPL
\* 150.00 / +2.5 the response carries "AAPL", "$150.00" and "+2.50".
C8_PriceTemplate ==
  (op = "fallback" /\ AnyWordIn(PriceWords, lower(query))) =>
    /\ query = AppleQuestion => reply.symbol = "AAPL"
    /\ (Truthy(reply.symbol) /\ reply.data # NoneData) =>
         /\ reply.response.template = "price"
         /\ reply.response.symbol = reply.data.symbol
         /\ reply.response.price = <<"$">> \o Format2f(reply.data.price, FALSE)
         /\ reply.response.change = Format2f(reply.data.change, TRUE)
         /\ reply.response.note = "Quick Analysis"
         /\ reply.response.indicator = "gain" <=> reply.data.change >= 0
         /\ reply.response.indicator = "decline" <=> reply.data.change < 0
         /\ reply.response.trend = reply.response.indicator
    /\ ( /\ query = AppleQuestion
         /\ reply.data # NoneData
         /\ reply.data.symbol = "AAPL"
         /\ reply.data.price = 150 * 10000
         /\ reply.data.change = 25000 ) =>
         /\ reply.response.symbol = "AAPL"
         /\ reply.response.price = <<"$","1","5","0",".","0","0">>
         /\ reply.response.change = <<"+","2",".","5","0">>
         /\ reply.response.indicator = "gain"
         /\ reply.response.note = "Quick Analysis"

\* C8 witness: "What's Apple's stock price?" was answered from the quote AAPL
\* 150.00 / +2.5 with the price template and the gain indicator.
C8_Witness ==
  /\ op = "fallback"
  /\ query = AppleQuestion
  /\ reply.symbol = "AAPL"
  /\ reply.response.template = "price"
  /\ reply.response.price = <<"$","1","5","0",".","0","0">>
  /\ reply.response.change = <<"+","2",".","5","0">>
  /\ reply.response.indicator = "gain"

\* ----------------------------------------------- properties: ledger

\* The calendar date an ISO text YYYY-MM-DD names.
DateOfIso(text) ==
  <<DigitsValue(SubSeq(text, 1, 4)), DigitsValue(SubSeq(text, 6, 7)),
    DigitsValue(SubSeq(text, 9, 10))>>

\* Day a is not after day b.
NotAfter(a, b) ==
  \/ a[1] < b[1]
  \/ a[1] = b[1] /\ a[2] < b[2]
  \/ a[1] = b[1] /\ a[2] = b[2] /\ a[3] <= b[3]

\* The record r carries the category, amount and date of the call c: the
\* date passed, or the ISO text of the day of the call when none was passed.
Carries(r, c) ==
  /\ r.category = c.category
  /\ r.amount = c.amount
  /\ r.date = IF c.date.given THEN c.date.text ELSE isoformat(c.day)

\* C10: starting from an initialized empty ledger, the table holds in every
\* state one record per add_transaction call so far, carrying that call's
\* category, amount and date (today's ISO date when omitted), so that no call,
\* init_db included, modifies or removes an earlier record; and
\* get_all_transactions returns exactly these records, with distinct ids, in
\* nondecreasing order of their dates.
C10_LedgerKeepsEveryRecord ==
  /\ Len(table.rows) = Len(added)
  /\ \A k \in 1..Len(added) : Carries(table.rows[k], added[k])
  /\ (op = "get_all_transactions" /\ ~raised) =>
       /\ Len(fetched) = Len(added)
       /\ \E o \in Orders(Len(added)) :
            \A i \in 1..Len(added) : Carries(fetched[i], added[o[i]])
       /\ \A i, j \in 1..Len(fetched) : i # j => fetched[i].id # fetched[j].id
       /\ \A i \in 1..(Len(fetched) - 1) :
            NotAfter(DateOfIso(fetched[i].date), DateOfIso(fetched[i + 1].date))

\* C10 witness: after three insertions, one of them without a date, and an
\* init_db on the filled table, get_all_transactions returned the three
\* records with a later-inserted record ahead of an earlier-inserted one.
C10_Witness ==
  /\ op = "get_all_transactions"
  /\ ~raised
  /\ reinit
  /\ Len(fetched) = 3
  /\ \E k \in 1..Len(added) : ~added[k].date.given
  /\ fetched[1].id > fetched[2].id

\* -------------------------------- properties: price branch without data

\* C11: on the fallback path, when the query has a price keyword but
\* find_symbol returned no symbol or the quote came back as None, the function
\* returns None: neither the template of a later bucket whose keyword the
\* query also contains, nor the help template.
C11_PriceBranchWithoutDataIsNone ==
  ( /\ op = "fallback"
    /\ AnyWordIn(PriceWords, lower(query))
    /\ (~Truthy(reply.symbol) \/ reply.data = NoneData) ) =>
    /\ reply.response = NoneResponse
    /\ reply.response \notin
         {Template(n) : n \in {"price", "market", "forex", "commodity",
                               "investment", "help"}}

\* C11 witness: a question with a price keyword and a market keyword whose
\* symbol was not found got no response, and so did one with a price keyword
\* and a commodity keyword whose quote was unavailable.
C11_Witness ==
  /\ op = "fallback"
  /\ reply.response = NoneResponse
  /\ \/ /\ query = StockMarketOverview
        /\ ~Truthy(reply.symbol)
     \/ /\ query = GoldPriceToday
        /\ reply.symbol = "GC=F"
        /\ reply.data = NoneData

\* ------------------------------------------ properties: forex gateway

\* The smaller of two numbers.
Min(a, b) == IF a < b THEN a ELSE b

\* The characters of p at positions lo+1 .. hi, counted from one.
Chars(p, lo, hi) == [k \in 1..(hi - lo) |-> p[lo + k]]

\* C12 as stated: the base is the first three characters and the quote is
\* everything after them, whatever the length of the pair, and the label of
\* a returned rate is base/quote. (For a pair longer than six characters the
\* code keeps only the fourth to sixth: this statement is violated.)
C12_QuoteIsEntireRest ==
  \A i \in 1..Len(forexCalls) :
    LET p == forexCalls[i].pair
        base == Chars(p, 0, Min(3, Len(p)))
        rest == Chars(p, Min(3, Len(p)), Len(p))
    IN  /\ forexCalls[i].requests = 1 =>
             /\ forexCalls[i].sent.from_currency = base
             /\ forexCalls[i].sent.to_currency = rest
        /\ forexCalls[i].value # NoneData =>
             forexCalls[i].value.pair = base \o <<"/">> \o rest

\* C12, amended: the base is the first three characters and the quote the
\* fourth to sixth, as far as the pair has them. A pair of six characters
\* gives two codes of three; for a pair of six characters or fewer the quote
\* is the entire rest; for a longer pair the characters after the sixth are
\* dropped. The label of a returned rate is base/quote.
C12_QuoteIsFourthToSixth ==
  \A i \in 1..Len(forexCalls) :
    LET p == forexCalls[i].pair
        base == Chars(p, 0, Min(3, Len(p)))
        quote == Chars(p, Min(3, Len(p)), Min(6, Len(p)))
    IN  /\ forexCalls[i].requests = 1 =>
             /\ forexCalls[i].sent.from_currency = base
             /\ forexCalls[i].sent.to_currency = quote
        /\ forexCalls[i].value # NoneData =>
             forexCalls[i].value.pair = base \o <<"/">> \o quote
        /\ Len(p) = 6 => Len(base) = 3 /\ Len(quote) = 3
        /\ Len(p) <= 6 => base \o quote = p
        /\ Len(p) > 6 => quote = <<p[4], p[5], p[6]>> /\ base \o quote # p

\* C12 witness: get_forex_data("EURUSD=X") sent a request for EUR and USD and
\* returned a rate labelled EUR/USD, after a call with a pair shorter than
\* six characters.
C12_Witness ==
  /\ Len(forexCalls) = 2
  /\ Len(forexCalls[1].pair) < 6
  /\ forexCalls[1].requests = 1
  /\ forexCalls[2].pair = <<"E","U","R","U","S","D","=","X">>
  /\ forexCalls[2].requests = 1
  /\ forexCalls[2].sent.to_currency = <<"U","S","D">>
  /\ forexCalls[2].value # NoneData
  /\ forexCalls[2].value.pair = <<"E","U","R","/","U","S","D">>

\* ----------------------------------------------------- properties: chat

\* C13: the history is append-only and strictly alternating. After k prompts
\* it has 2k turns; turn 2i-1 is the user turn with the i-th prompt, turn 2i
\* is the assistant turn with the response composed for it, in every later
\* state as well; and every assistant turn's content is a response text.
\* (The composer returns None for a price question without data, and that
\* None is stored as the assistant turn's content: this statement is
\* violated.)
C13_HistoryAlternatesWithText ==
  /\ Len(messages) = 2 * Len(submitted)
  /\ \A i \in 1..Len(submitted) :
       /\ messages[2 * i - 1] = Message("user", submitted[i].prompt)
       /\ messages[2 * i].role = "assistant"
       /\ messages[2 * i].content = submitted[i].response
       /\ messages[2 * i].content # NoneResponse

====
